---- MODULE Spec2Model ----
(***************************************************************************)
(* Model of src/buffer.py: the wrap-around batch sampler                   *)
(* (PPORLBatchSampler) and the padding collator (ppo_rl_collate_fn).       *)
(*                                                                         *)
(* The sampler is modelled as generator objects stepping through the body  *)
(* of __iter__; Python lists are heap objects referred to by index, so     *)
(* that `batch = []` (a new object) differs from clearing in place.        *)
(* The collator is a pure function, applied by an action to record lists   *)
(* built up by the caller.                                                 *)
(***************************************************************************)
EXTENDS Integers, Sequences, FiniteSets, TLC

\* ---- bounds of the model ----
MaxN == 7          \* len(data_source) ranges over 0..MaxN
MaxBS == 5         \* batch_size ranges over 1..MaxBS
NumIters == 2      \* generator objects obtained from the one sampler
MaxBatch == 2      \* records handed to the collator
MaxTotal == 3      \* total number of sequence elements in one record list

VARIABLES
    n,             \* len(self.data_source)
    batch_size,    \* self.batch_size
    gen,           \* gen[k]: the k-th generator object made by __iter__
    batch,         \* the record list passed to ppo_rl_collate_fn
    pad_token_id,  \* the pad_token_id passed to ppo_rl_collate_fn
    result         \* what ppo_rl_collate_fn did: nothing yet, raised, or a mapping

vars == <<n, batch_size, gen, batch, pad_token_id, result>>

samplerVars == <<n, batch_size, gen>>

collateVars == <<batch, pad_token_id, result>>

Iters == 1..NumIters

Min(a, b) == IF a < b THEN a ELSE b

\* ------------------------------------------------------------------------
\* PPORLBatchSampler
\* ------------------------------------------------------------------------

\* A generator that __iter__ has not been called for yet.
NoGen ==
    [pc |-> "idle", idx |-> 0, lists |-> <<>>, cur |-> 0, yielded |-> <<>>,
     needed |-> 0, fill |-> 0, i |-> 0]

\* line 51: batch = [] allocates the first list object; the for loop is at 0.
NewGen ==
    [pc |-> "for", idx |-> 0, lists |-> << <<>> >>, cur |-> 1, yielded |-> <<>>,
     needed |-> 0, fill |-> 0, i |-> 0]

\* batch.append(x): the list object g.cur grows in place.
BatchAppendFront(g, x) == [g EXCEPT !.lists[g.cur] = <<x>> \o @]

BatchAppend(g, x) == [g EXCEPT !.lists[g.cur] = Append(@, x)]

\* len(batch)
BatchLen(g) == Len(g.lists[g.cur])

\* yield batch: the consumer receives a reference to the current list object.
Yield(g) == [g EXCEPT !.yielded = Append(@, g.cur)]

\* line 56 written as batch.clear(): the yielded object itself is emptied.
ClearBatchInPlace(g) == [g EXCEPT !.lists[g.cur] = <<>>]

\* line 56: batch = [] binds a NEW list object, the yielded one is left alone.
NewBatch(g) == [g EXCEPT !.lists = Append(@, <<>>), !.cur = Len(g.lists) + 1]

\* line 61 written as range(len(self.data_source)): overshoots batch_size.
FillCountWholeSource(needed, len) == len

\* line 61 written as range(needed): runs past the end of the collection.
FillCountNoMin(needed, len) == needed

\* line 61: min(needed, len(self.data_source))
FillCount(needed, len) == Min(needed, len)

\* line 60 written as `while needed >= 0`.
WhileCondGe(needed) == needed >= 0

\* line 60: while needed > 0
WhileCond(needed) == needed > 0

\* line 67 written with plain floor division.
SamplerLenFloor(len, bs) == len \div bs

\* lines 66-67: __len__
SamplerLen(len, bs) == (len + bs - 1) \div bs

\* line 50: a call of __iter__ makes a fresh generator with its own locals.
Iter(k) ==
    /\ gen[k].pc = "idle"
    /\ gen' = [gen EXCEPT ![k] = NewGen]
    /\ UNCHANGED <<n, batch_size, collateVars>>

\* lines 52-56: one pass of the for loop body.
ForBody(k) ==
    /\ gen[k].pc = "for"
    /\ gen[k].idx < n
    /\ LET g1 == BatchAppend(gen[k], gen[k].idx)
           g2 == [g1 EXCEPT !.idx = @ + 1]
       IN  gen' = [gen EXCEPT ![k] =
                      IF BatchLen(g2) = batch_size
                      THEN NewBatch(Yield(g2))
                      ELSE g2]
    /\ UNCHANGED <<n, batch_size, collateVars>>

\* lines 52, 57, 59: range exhausted; `if batch:` then needed is computed.
ForExit(k) ==
    /\ gen[k].pc = "for"
    /\ gen[k].idx >= n
    /\ gen' = [gen EXCEPT ![k] =
                  IF BatchLen(gen[k]) > 0
                  THEN [@ EXCEPT !.pc = "while",
                                 !.needed = batch_size - BatchLen(gen[k])]
                  ELSE [@ EXCEPT !.pc = "done"]]
    /\ UNCHANGED <<n, batch_size, collateVars>>

\* lines 60, 61, 64: the while test; entering the inner for, or the last yield.
WhileTest(k) ==
    /\ gen[k].pc = "while"
    /\ gen' = [gen EXCEPT ![k] =
                  IF WhileCond(gen[k].needed)
                  THEN [@ EXCEPT !.pc = "fill",
                                 !.fill = FillCount(gen[k].needed, n),
                                 !.i = 0]
                  ELSE [Yield(@) EXCEPT !.pc = "done"]]
    /\ UNCHANGED <<n, batch_size, collateVars>>

\* lines 61-62: one pass of the inner for loop.
FillBody(k) ==
    /\ gen[k].pc = "fill"
    /\ gen[k].i < gen[k].fill
    /\ gen' = [gen EXCEPT ![k] = [BatchAppend(@, gen[k].i) EXCEPT !.i = @ + 1]]
    /\ UNCHANGED <<n, batch_size, collateVars>>

\* lines 61, 63: inner range exhausted; needed is recomputed.
FillExit(k) ==
    /\ gen[k].pc = "fill"
    /\ gen[k].i >= gen[k].fill
    /\ gen' = [gen EXCEPT ![k] =
                  [@ EXCEPT !.pc = "while",
                            !.needed = batch_size - BatchLen(gen[k])]]
    /\ UNCHANGED <<n, batch_size, collateVars>>

\* One step of generator k's body.
Step(k) == ForBody(k) \/ ForExit(k) \/ WhileTest(k) \/ FillBody(k) \/ FillExit(k)

\* lines 46-48: __init__ stores data_source and batch_size; no generator yet.
Init ==
    /\ n \in 0..MaxN
    /\ batch_size \in 1..MaxBS
    /\ gen = [k \in Iters |-> NoGen]
    /\ batch = <<>>
    /\ pad_token_id = 0
    /\ result = [kind |-> "none"]

Next == \E k \in Iters : Iter(k) \/ Step(k)

Spec == Init /\ [][Next]_vars

\* The consumer of a generator keeps asking for the next group.
FairSpec == Spec /\ \A k \in Iters : WF_vars(Step(k))

\* The groups generator k has yielded so far, as the consumer sees them now.
Groups(k) == [j \in 1..Len(gen[k].yielded) |-> gen[k].lists[gen[k].yielded[j]]]

Done(k) == gen[k].pc = "done"

\* ------------------------------------------------------------------------
\* Properties of PPORLBatchSampler
\* ------------------------------------------------------------------------

RECURSIVE Concat(_)
Concat(ss) == IF ss = <<>> THEN <<>> ELSE Head(ss) \o Concat(Tail(ss))

\* Everything generator k has yielded so far, group after group.
Flat(k) == Concat(Groups(k))

\* ceil(a / b), as the least q with q * b >= a.
CeilDiv(a, b) == CHOOSE q \in 0..a : q * b >= a /\ (q = 0 \/ (q - 1) * b < a)

IsPrefix(s, t) == Len(s) <= Len(t) /\ SubSeq(t, 1, Len(s)) = s

\* C1: every group a generator has yielded, full or wrap-filled, has exactly
\* batch_size elements.
C1_GroupsHaveBatchSize ==
    \A k \in Iters : \A j \in 1..Len(gen[k].yielded) :
        Len(Groups(k)[j]) = batch_size

\* A finished iteration whose last group had to be wrap-filled.
C1_Witness ==
    \E k \in Iters :
        /\ Done(k)
        /\ n % batch_size # 0
        /\ Len(gen[k].yielded) >= 1
        /\ Len(Groups(k)[Len(gen[k].yielded)]) = batch_size

\* C2: a complete run yields ceil(n / batch_size) groups (none when n = 0), and
\* __len__ returns that number.
C2_GroupCount ==
    /\ SamplerLen(n, batch_size) = CeilDiv(n, batch_size)
    /\ \A k \in Iters :
          Done(k) => /\ Len(gen[k].yielded) = CeilDiv(n, batch_size)
                     /\ Len(gen[k].yielded) = SamplerLen(n, batch_size)
                     /\ (n = 0 => gen[k].yielded = <<>>)

\* A finished iteration with several groups, the last one partial before the fill.
C2_Witness ==
    \E k \in Iters :
        /\ Done(k)
        /\ n % batch_size # 0
        /\ n > batch_size
        /\ Len(gen[k].yielded) = (n \div batch_size) + 1

\* C3: the first n yielded entries are 0, 1, ..., n-1 in this order: at every
\* moment the p-th entry yielded (p <= n) is p - 1, and a finished iteration has
\* yielded at least n entries.
C3_FirstNInOrder ==
    \A k \in Iters :
        /\ \A p \in 1..Len(Flat(k)) : p <= n => Flat(k)[p] = p - 1
        /\ (Done(k) /\ n >= 1) =>
              /\ Len(Flat(k)) >= n
              /\ SubSeq(Flat(k), 1, n) = [p \in 1..n |-> p - 1]

\* A finished iteration over at least two groups of at least two indices.
C3_Witness ==
    \E k \in Iters :
        /\ Done(k)
        /\ batch_size >= 2
        /\ n >= 2 * batch_size
        /\ SubSeq(Flat(k), 1, n) = [p \in 1..n |-> p - 1]

\* C4: with n mod batch_size # 0 only the final group holds wrap-filled
\* entries, and the entry at (0-based) position p >= n of the output is
\* (p - n) mod n; with n mod batch_size = 0 nothing is repeated.
C4_WrapFill ==
    \A k \in Iters :
        (Done(k) /\ n >= 1) =>
            /\ \A p \in 1..Len(Flat(k)) :
                  p > n => Flat(k)[p] = (p - 1 - n) % n
            /\ n % batch_size # 0 =>
                  /\ Len(Flat(k)) > n
                  /\ (Len(gen[k].yielded) - 1) * batch_size < n
            /\ n % batch_size = 0 => Flat(k) = [p \in 1..n |-> p - 1]

\* The two examples: n = 7, batch_size = 3 ends with [6, 0, 1], and n = 2,
\* batch_size = 5 gives [0, 1, 0, 1, 0].
C4_Witness ==
    \E k \in Iters :
        /\ Done(k)
        /\ \/ n = 7 /\ batch_size = 3
                    /\ Groups(k) = << <<0, 1, 2>>, <<3, 4, 5>>, <<6, 0, 1>> >>
           \/ n = 2 /\ batch_size = 5
                    /\ Groups(k) = << <<0, 1, 0, 1, 0>> >>

\* C5: no step changes the sampler's fields or a group already yielded, any
\* two iterations of the sampler (one after the other, one abandoned, or
\* interleaved) agree on every group both have yielded, and two complete
\* iterations yielded the same sequence of groups.
C5_Restartable ==
    [][ /\ n' = n
        /\ batch_size' = batch_size
        /\ \A k \in Iters : IsPrefix(Groups(k), Groups(k)')
        /\ \A k1, k2 \in Iters :
              /\ IsPrefix(Groups(k1)', Groups(k2)') \/ IsPrefix(Groups(k2)', Groups(k1)')
              /\ (Done(k1)' /\ Done(k2)') => Groups(k1)' = Groups(k2)'
      ]_vars

\* One iteration is complete, and a second one of the same sampler, begun
\* while the first had already yielded, is under way with a group yielded.
C5_Witness ==
    \E k1, k2 \in Iters :
        /\ k1 # k2
        /\ Done(k1)
        /\ Len(gen[k1].yielded) >= 2
        /\ gen[k2].pc = "for"
        /\ Len(gen[k2].yielded) = 1

\* C10: every iteration terminates: a generator that was started is exhausted,
\* and each pass of the wrap-fill loop appends between 1 and `needed` indices,
\* so that `needed` strictly decreases and never goes below 0.
C10_Terminates ==
    /\ \A k \in Iters : (gen[k].pc # "idle") ~> Done(k)
    /\ [][ \A k \in Iters :
              (gen[k].pc = "fill" /\ gen'[k].pc = "while") =>
                  /\ gen'[k].needed < gen[k].needed
                  /\ gen'[k].needed >= 0
                  /\ gen[k].fill >= 1
                  /\ gen[k].fill <= gen[k].needed
         ]_vars
    /\ [](\A k \in Iters : Done(k) => gen[k].needed = 0)

\* An exhausted generator whose wrap-fill loop took more than one pass
\* (batch_size exceeds twice the collection size).
C10_Witness ==
    \E k \in Iters :
        /\ Done(k)
        /\ n >= 1
        /\ batch_size > 2 * n
        /\ gen[k].needed = 0
        /\ Len(gen[k].yielded) = 1

\* ------------------------------------------------------------------------
\* ppo_rl_collate_fn
\* ------------------------------------------------------------------------

\* The five sequence fields every record has (PPORLElement).
Fields == {"input_ids", "actions", "logprobs", "values", "rewards"}

\* pad_token_id values the caller passes: 0 coincides with the float fill.
PadIds == {0, 9}

\* A PPORLElement (vision = FALSE) or PPORLVisionElement (vision = TRUE) whose
\* tensors are still empty; hasattr(element, 'image_ids') is has_image.
EmptyElement(vision) ==
    [input_ids |-> <<>>, actions |-> <<>>, logprobs |-> <<>>, values |-> <<>>,
     rewards |-> <<>>, has_image |-> vision, image_ids |-> <<>>]

\* The fields record r exposes.
FieldsOf(r) == IF r.has_image THEN Fields \cup {"image_ids"} ELSE Fields

RecordLen(r) ==
    Len(r.input_ids) + Len(r.actions) + Len(r.logprobs) + Len(r.values)
        + Len(r.rewards) + Len(r.image_ids)

RECURSIVE TotalLen(_)
TotalLen(b) == IF b = <<>> THEN 0 ELSE RecordLen(Head(b)) + TotalLen(Tail(b))

\* An entry of a Python list of tensors: a 1-D tensor, or None.
Tensor(s) == [none |-> FALSE, data |-> s]

NoneValue == [none |-> TRUE, data |-> <<>>]

\* lines 93-98: the per-field lists, in record order.
FieldList(b, f) == [i \in 1..Len(b) |-> Tensor(b[i][f])]

\* line 91: any(hasattr(element, 'image_ids') for element in batch)
HasImageIds(b) == \E i \in 1..Len(b) : b[i].has_image

\* lines 100-106: image_ids of a record that has them, None for one without.
ImageList(b) ==
    [i \in 1..Len(b) |-> IF b[i].has_image THEN Tensor(b[i].image_ids) ELSE NoneValue]

Max(a, b) == IF a > b THEN a ELSE b

RECURSIVE MaxLength(_)
MaxLength(seqs) ==
    IF seqs = <<>> THEN 0 ELSE Max(Len(Head(seqs).data), MaxLength(Tail(seqs)))

\* One sequence right-padded to width w.
PadRight(s, w, padding_value) ==
    [j \in 1..w |-> IF j <= Len(s) THEN s[j] ELSE padding_value]

\* pad_sequence with the default batch_first=False: shape (max_length, B).
PadSequenceTimeMajor(seqs, padding_value) ==
    IF \E i \in 1..Len(seqs) : seqs[i].none
    THEN [raised |-> TRUE, rows |-> <<>>]
    ELSE [raised |-> FALSE,
          rows |-> [j \in 1..MaxLength(seqs) |->
                      [i \in 1..Len(seqs) |->
                          PadRight(seqs[i].data, MaxLength(seqs), padding_value)[j]]]]

\* pad_sequence(..., batch_first=True, padding_value=...): a TypeError when an
\* entry is not a tensor, else B rows right-padded to the longest entry.
PadSequence(seqs, padding_value) ==
    IF \E i \in 1..Len(seqs) : seqs[i].none
    THEN [raised |-> TRUE, rows |-> <<>>]
    ELSE [raised |-> FALSE,
          rows |-> [i \in 1..Len(seqs) |->
                      PadRight(seqs[i].data, MaxLength(seqs), padding_value)]]

\* Every field filled with 0.
PaddingValueZero(f, pad) == 0

\* lines 110-114, 119: the padding_value argument of each field.
PaddingValue(f, pad) ==
    IF f \in {"input_ids", "actions"} THEN pad ELSE 0

\* lines 81-121: the collator. The five fields are padded first; image_ids is
\* padded and added only when has_image_ids; an exception leaves no mapping.
ppo_rl_collate_fn(b, pad) ==
    LET has_image_ids == HasImageIds(b)
        padded == [f \in Fields |-> PadSequence(FieldList(b, f), PaddingValue(f, pad))]
        batched_data == [f \in Fields |-> padded[f].rows]
        image == PadSequence(ImageList(b), PaddingValue("image_ids", pad))
    IN  IF \E f \in Fields : padded[f].raised
        THEN [kind |-> "raised"]
        ELSE IF ~has_image_ids
        THEN [kind |-> "returned", data |-> batched_data]
        ELSE IF image.raised
        THEN [kind |-> "raised"]
        ELSE [kind |-> "returned",
              data |-> [f \in Fields \cup {"image_ids"} |->
                          IF f = "image_ids" THEN image.rows ELSE batched_data[f]]]

\* The caller makes one more record (lines 11-41) for the list.
AddElement(vision) ==
    /\ result.kind = "none"
    /\ Len(batch) < MaxBatch
    /\ batch' = Append(batch, EmptyElement(vision))
    /\ UNCHANGED <<samplerVars, pad_token_id, result>>

\* The caller makes field f of the newest record one element longer. The
\* element written tells the record and the position: 10 * record + position.
ExtendField(f) ==
    /\ result.kind = "none"
    /\ batch # <<>>
    /\ TotalLen(batch) < MaxTotal
    /\ f \in FieldsOf(batch[Len(batch)])
    /\ batch' = [batch EXCEPT ![Len(batch)][f] =
                    Append(@, 10 * Len(batch) + Len(@) + 1)]
    /\ UNCHANGED <<samplerVars, pad_token_id, result>>

\* line 81: the call ppo_rl_collate_fn(batch, pad_token_id) on a non-empty list.
Collate(pad) ==
    /\ result.kind = "none"
    /\ batch # <<>>
    /\ pad_token_id' = pad
    /\ result' = ppo_rl_collate_fn(batch, pad)
    /\ UNCHANGED <<samplerVars, batch>>

CollateInit ==
    /\ n = 0
    /\ batch_size = 1
    /\ gen = [k \in Iters |-> NoGen]
    /\ batch = <<>>
    /\ pad_token_id = 0
    /\ result = [kind |-> "none"]

CollateNext ==
    \/ \E vision \in BOOLEAN : AddElement(vision)
    \/ \E f \in Fields \cup {"image_ids"} : ExtendField(f)
    \/ \E pad \in PadIds : Collate(pad)

CollateSpec == CollateInit /\ [][CollateNext]_vars

\* ------------------------------------------------------------------------
\* Properties of ppo_rl_collate_fn
\* ------------------------------------------------------------------------

Returned == result.kind = "returned"

\* The longest sequence of field f over the records of b.
RECURSIVE LongestField(_, _)
LongestField(b, f) ==
    IF b = <<>> THEN 0 ELSE Max(Len(Head(b)[f]), LongestField(Tail(b), f))

\* The width of a matrix with at least one row.
Width(m) == Len(m[1])

\* A list mixing records with an image_ids field and records without one.
Mixed(b) == HasImageIds(b) /\ \E i \in 1..Len(b) : ~b[i].has_image

\* A record whose actions, logprobs, values and rewards differ in length.
Mismatched(r) ==
    \E f, g \in {"actions", "logprobs", "values", "rewards"} : Len(r[f]) # Len(r[g])

\* C6: for every non-empty list of records, mixed ones included, the collator
\* returns a mapping without raising, and image_ids is a key of it if and
\* only if some record exposes image_ids.
C6_ReturnsWithImageKey ==
    result.kind # "none" =>
        /\ Returned
        /\ ("image_ids" \in DOMAIN result.data) <=> HasImageIds(batch)

\* C7: every field of the returned batch has shape (number of records, longest
\* sequence of that field), row i is made from record i, and the width of a
\* field depends on that field alone.
C7_Shape ==
    Returned =>
        \A f \in DOMAIN result.data :
            /\ Len(result.data[f]) = Len(batch)
            /\ \A i \in 1..Len(batch) :
                  /\ Len(result.data[f][i]) = LongestField(batch, f)
                  /\ \A j \in 1..Len(batch[i][f]) :
                        result.data[f][i][j] \div 10 = i

\* A returned batch of two records in which input_ids and actions have
\* different widths and a row of input_ids is shorter than the width.
C7_Witness ==
    /\ Returned
    /\ Len(batch) = 2
    /\ Width(result.data["input_ids"]) # Width(result.data["actions"])
    /\ Width(result.data["actions"]) >= 1
    /\ \E i \in 1..2 : Len(batch[i].input_ids) < Width(result.data["input_ids"])

\* The fill value the documentation gives for each field.
FillValue(f) == IF f \in {"input_ids", "actions"} THEN pad_token_id ELSE 0

\* C8: in the returned batch, row i of every field starts with record i's
\* sequence unchanged, and every position after it holds the field's fill
\* value: pad_token_id for input_ids and actions, 0 for the others.
C8_RightPadding ==
    Returned =>
        \A f \in DOMAIN result.data : \A i \in 1..Len(batch) :
            /\ Len(result.data[f][i]) >= Len(batch[i][f])
            /\ \A j \in 1..Len(result.data[f][i]) :
                  result.data[f][i][j] =
                      IF j <= Len(batch[i][f]) THEN batch[i][f][j] ELSE FillValue(f)

\* A returned batch, made with a non-zero pad_token_id, in which a row of
\* actions and a row of logprobs are padded and another row is not.
C8_Witness ==
    /\ Returned
    /\ pad_token_id # 0
    /\ \E i, k \in 1..Len(batch) :
          /\ Len(batch[i].actions) < Width(result.data["actions"])
          /\ Len(batch[i].logprobs) < Width(result.data["logprobs"])
          /\ Len(batch[k].actions) = Width(result.data["actions"])
          /\ result.data["actions"][i][Width(result.data["actions"])] = pad_token_id
          /\ result.data["logprobs"][i][Width(result.data["logprobs"])] = 0

\* C9: when a record has actions, logprobs, values and rewards of differing
\* lengths, the collator raises no error and pads each field on its own, each
\* to the longest sequence of that field.
C9_MismatchIsSilent ==
    (result.kind # "none" /\ \E i \in 1..Len(batch) : Mismatched(batch[i])) =>
        /\ Returned
        /\ \A f \in {"actions", "logprobs", "values", "rewards"} :
              Width(result.data[f]) = LongestField(batch, f)

====
